---------------------------- MODULE Spec2Model ----------------------------
(***************************************************************************)
(* Model of the curvesim invariant-and-trading core:                       *)
(*   - src/curvesim/pool/cryptoswap/calcs/tricrypto_ng.py                  *)
(*       geometric_mean, newton_D (both definitions of the module),        *)
(*       get_p, _cbrt, _snekmate_log_2                                     *)
(*   - src/curvesim/iterators/param_samplers/pool_mixins.py                *)
(*       the setters tables and the special attribute setters              *)
(*                                                                         *)
(* The Python code computes with arbitrary-precision integers (10**18      *)
(* fixed point, products near 10**70).  TLC's integers are 32 bits wide,   *)
(* so Python's int is modelled here as a sign and a magnitude, the         *)
(* magnitude being a little-endian sequence of limbs in base 1000 with no  *)
(* leading zero limb.  Every arithmetic step of the code is one call of    *)
(* add / sub / mul / fdiv below, in the code's order: // is Python's       *)
(* floor division.                                                         *)
(***************************************************************************)
EXTENDS Integers, Sequences, FiniteSets, TLC

(***************************************************************************)
(* Naturals as limb sequences                                              *)
(***************************************************************************)
Base == 1000

Limb(a, i) == IF i >= 1 /\ i <= Len(a) THEN a[i] ELSE 0

RECURSIVE nOfInt(_)
nOfInt(n) == IF n = 0 THEN << >> ELSE << n % Base >> \o nOfInt(n \div Base)

\* a without its leading zero limbs
nNorm(a) ==
    IF a = << >> \/ a[Len(a)] # 0 THEN a
    ELSE SubSeq(a, 1, CHOOSE n \in 0..Len(a) :
                          /\ n = 0 \/ a[n] # 0
                          /\ \A j \in (n + 1)..Len(a) : a[j] = 0)

\* at the highest limb where a and b of one length differ
nCmpAt(a, b, i) == IF a[i] > b[i] THEN 1 ELSE -1

nCmp(a, b) ==
    IF Len(a) > Len(b) THEN 1
    ELSE IF Len(a) < Len(b) THEN -1
    ELSE IF a = b THEN 0
    ELSE nCmpAt(a, b, CHOOSE i \in 1..Len(a) :
                          /\ a[i] # b[i]
                          /\ \A j \in (i + 1)..Len(a) : a[j] = b[j])

\* The carry into the column i of the columns s, each at most 2 * Base - 2:
\* that of the nearest column below which does not hand on the carry it is
\* given (a column of Base - 1 does).
nCarryIn(s, i) ==
    IF i = 1 THEN 0
    ELSE IF s[i - 1] # Base - 1 THEN (IF s[i - 1] >= Base THEN 1 ELSE 0)
    ELSE IF \E j \in 1..(i - 2) :
                /\ s[j] >= Base
                /\ \A k \in (j + 1)..(i - 2) : s[k] = Base - 1
    THEN 1 ELSE 0

nCarryOnce(s) ==
    nNorm(<< >> \o [i \in 1..(Len(s) + 1) |->
                       (Limb(s, i) + nCarryIn(s, i)) % Base])

\* each column keeps its low limb and hands the rest to the next column
nCarryPass(c) ==
    << >> \o [i \in 1..(Len(c) + 1) |->
                 (Limb(c, i) % Base) + (Limb(c, i - 1) \div Base)]

\* the limbs of the number with the columns c, each below Base ^ 3
nCarry(c) == nCarryOnce(nCarryPass(nCarryPass(nCarryPass(c))))

nAdd(a, b) ==
    nCarryOnce(<< >> \o [i \in 1..(IF Len(a) > Len(b) THEN Len(a) ELSE Len(b)) |->
                            Limb(a, i) + Limb(b, i)])

\* the borrow from the column i of the differences d of limbs: that of the
\* nearest column below which is not 0
nBorrowIn(d, i) ==
    IF i = 1 THEN 0
    ELSE IF d[i - 1] # 0 THEN (IF d[i - 1] < 0 THEN 1 ELSE 0)
    ELSE IF \E j \in 1..(i - 2) :
                /\ d[j] < 0
                /\ \A k \in (j + 1)..(i - 2) : d[k] = 0
    THEN 1 ELSE 0

nBorrowOnce(d) ==
    nNorm(<< >> \o [i \in 1..Len(d) |-> (d[i] - nBorrowIn(d, i) + Base) % Base])

\* a - b for a >= b
nSub(a, b) == nBorrowOnce(<< >> \o [i \in 1..Len(a) |-> a[i] - Limb(b, i)])

\* the column k of a * b: the sum of a[i] * b[k + 1 - i], i in lo..hi
RECURSIVE nConv(_, _, _, _, _)
nConv(a, b, k, lo, hi) ==
    IF lo > hi THEN 0
    ELSE IF lo = hi THEN a[lo] * b[k + 1 - lo]
    ELSE nConv(a, b, k, lo, (lo + hi) \div 2)
         + nConv(a, b, k, (lo + hi) \div 2 + 1, hi)

nMul(a, b) ==
    IF a = << >> \/ b = << >> THEN << >>
    ELSE nCarry(<< >> \o [k \in 1..(Len(a) + Len(b) - 1) |->
                    nConv(a, b, k,
                          IF k - Len(b) + 1 > 1 THEN k - Len(b) + 1 ELSE 1,
                          IF k < Len(a) THEN k ELSE Len(a))])

\* the limbs of r * Base + v
nShiftIn(r, v) == IF r = << >> /\ v = 0 THEN << >> ELSE << v >> \o r

\* the largest q with q * d <= r, for d <= r < d * Base and d of two limbs
\* or more: at most the quotient of the leading limbs, and at most 2 less
nEstimate(r, d) ==
    (Limb(r, Len(d) + 1) * Base * Base + Limb(r, Len(d)) * Base
        + Limb(r, Len(d) - 1)) \div (d[Len(d)] * Base + d[Len(d) - 1])

\* the columns of r - q * d for one limb q, each between -Base and Base:
\* the low limb of every difference of limbs, and the rest of the one below
nRestAt(r, d, q, i) == Limb(r, i) - Limb(d, i) * q

nRest(r, d, q) ==
    << >> \o [i \in 1..(Len(r) + 1) |->
                 (nRestAt(r, d, q, i) % Base) + (nRestAt(r, d, q, i - 1) \div Base)]

\* the sign of the number with such columns: that of its highest column
\* which is not 0
nSign(u) ==
    IF \A i \in 1..Len(u) : u[i] = 0 THEN 0
    ELSE IF u[CHOOSE i \in 1..Len(u) :
                /\ u[i] # 0
                /\ \A j \in (i + 1)..Len(u) : u[j] = 0] > 0 THEN 1
    ELSE -1

nDigitK(r, d, qh) ==
    CHOOSE q \in (IF qh < 2 THEN 0 ELSE qh - 2)..(IF qh < Base THEN qh ELSE Base - 1) :
        /\ nSign(nRest(r, d, q)) >= 0
        /\ \/ q = Base - 1
           \/ q = qh
           \/ nSign(nRest(r, d, q + 1)) < 0

nDigit(r, d) ==
    IF Len(r) < Len(d) THEN 0
    ELSE IF Len(d) = 1 THEN (r[1] + Base * Limb(r, 2)) \div d[1]
    ELSE nDigitK(r, d, nEstimate(r, d))

\* the remainder r less q times d, the digit q put before the quotient
nDivPut(st, d, r, q) ==
    IF q = 0 THEN [i |-> st.i - 1, r |-> r, q |-> << 0 >> \o st.q]
    ELSE [i |-> st.i - 1, r |-> nBorrowOnce(nRest(r, d, q)), q |-> << q >> \o st.q]

nDivStep(st, d, r) == nDivPut(st, d, r, nDigit(r, d))

\* one step of the long division of ad.a by ad.d: the limb a[st.i] brought
\* down to the remainder st.r
nDivAt(ad, st) == nDivStep(st, ad.d, nShiftIn(st.r, ad.a[st.i]))

\* the steps of the long division from the state st, k of them at most
RECURSIVE nDivLoop(_, _, _)
nDivLoop(ad, st, k) ==
    IF st.i = 0 \/ k = 0 THEN st
    ELSE IF k = 1 THEN nDivAt(ad, st)
    ELSE nDivLoop(ad, nDivLoop(ad, st, k \div 2), k - k \div 2)

nDivEnd(st) == << nNorm(st.q), st.r >>

\* << a div d, a mod d >> for d # 0
\* the long division begins with the leading Len(d) - 1 limbs of a as the
\* remainder: the digits of the quotient above are 0
nDivMod(a, d) ==
    IF Len(a) < Len(d) THEN << << >>, a >>
    ELSE nDivEnd(nDivLoop([a |-> a, d |-> d],
                          [i |-> Len(a) - Len(d) + 1,
                           r |-> SubSeq(a, Len(a) - Len(d) + 2, Len(a)),
                           q |-> << >>],
                          Len(a) - Len(d) + 1))

(***************************************************************************)
(* Python int: sign and magnitude                                          *)
(***************************************************************************)
Z(neg, mag) == [neg |-> neg /\ mag # << >>, mag |-> mag]

\* a TLA+ integer (|n| < 2^31) as a Python int
PyInt(n) == IF n < 0 THEN Z(TRUE, nOfInt(0 - n)) ELSE Z(FALSE, nOfInt(n))

RECURSIVE Reverse(_)
Reverse(s) == IF s = << >> THEN << >> ELSE Reverse(Tail(s)) \o << Head(s) >>

\* a Python int literal written in groups of three decimal digits, most
\* significant first: Dec(<<849, 743, 149>>) is 849743149
Dec(groups) == Z(FALSE, nNorm(Reverse(groups)))

\* 10 ** k
TenPow(k) ==
    Z(FALSE, << >> \o [i \in 1..(k \div 3 + 1) |->
                 IF i <= k \div 3 THEN 0
                 ELSE IF k % 3 = 0 THEN 1 ELSE IF k % 3 = 1 THEN 10 ELSE 100])

Zero == PyInt(0)
One == PyInt(1)

IsZero(a) == a.mag = << >>
neg(a) == Z(~a.neg, a.mag)
abs(a) == [neg |-> FALSE, mag |-> a.mag]

add(a, b) ==
    IF a.neg = b.neg THEN [neg |-> a.neg, mag |-> nAdd(a.mag, b.mag)]
    ELSE IF nCmp(a.mag, b.mag) >= 0 THEN Z(a.neg, nSub(a.mag, b.mag))
    ELSE Z(b.neg, nSub(b.mag, a.mag))

sub(a, b) ==
    IF a.neg # b.neg THEN [neg |-> a.neg, mag |-> nAdd(a.mag, b.mag)]
    ELSE IF nCmp(a.mag, b.mag) >= 0 THEN Z(a.neg, nSub(a.mag, b.mag))
    ELSE Z(~a.neg, nSub(b.mag, a.mag))

mul(a, b) ==
    [neg |-> a.neg # b.neg /\ a.mag # << >> /\ b.mag # << >>,
     mag |-> nMul(a.mag, b.mag)]

\* the quotient rounded down, for operands of different signs
fdivDown(qr) ==
    IF qr[2] = << >> THEN Z(TRUE, qr[1]) ELSE Z(TRUE, nAdd(qr[1], << 1 >>))

\* Python's a // b (floor), b # 0
fdiv(a, b) ==
    IF a.neg = b.neg THEN [neg |-> FALSE, mag |-> nDivMod(a.mag, b.mag)[1]]
    ELSE fdivDown(nDivMod(a.mag, b.mag))

cmp(a, b) ==
    IF a.neg # b.neg THEN (IF a.neg THEN -1 ELSE 1)
    ELSE IF a.neg THEN nCmp(b.mag, a.mag)
    ELSE nCmp(a.mag, b.mag)

lt(a, b) == cmp(a, b) < 0
le(a, b) == cmp(a, b) <= 0
gt(a, b) == cmp(a, b) > 0
ge(a, b) == cmp(a, b) >= 0
max(a, b) == IF ge(a, b) THEN a ELSE b

(***************************************************************************)
(* Outcome of a call: a returned value, or the exception raised.  `value`  *)
(* of a raise is the iterate the call held when it raised, `iters` the     *)
(* number of Newton iterations begun.                                      *)
(***************************************************************************)
Return(v, k) == [exc |-> "none", msg |-> "", value |-> v, iters |-> k]
Raise(exc, msg, v, k) == [exc |-> exc, msg |-> msg, value |-> v, iters |-> k]

\* A loop under way: its iterate and the iterations made.
Continue(D, i) == [exc |-> "pending", msg |-> "", value |-> D, iters |-> i]
Looping(st) == st.exc = "pending"

\* for i in range(k): body(env, .), from the loop state st; a return or an
\* exception of the body leaves the loop.  The passes are made half by half.
RECURSIVE Range(_, _, _, _)
Range(body(_, _), env, st, k) ==
    IF st.exc # "pending" \/ k = 0 THEN st
    ELSE IF k = 1 THEN body(env, st)
    ELSE Range(body, env, Range(body, env, st, k \div 2), k - k \div 2)

\* for ... else: raise CalculationError("Did not converge")
DidNotConverge(st) ==
    IF Looping(st)
    THEN Raise("CalculationError", "Did not converge", st.value, st.iters)
    ELSE st

Returned(o) == o.exc = "none"

\* range(255)
MaxIter == 255

E18 == TenPow(18)
A_MULTIPLIER == PyInt(10000)
MIN_GAMMA == TenPow(10)
MAX_GAMMA == mul(PyInt(2), TenPow(16))

\* sorted(x, reverse=True)
RECURSIVE InsertDesc(_, _)
InsertDesc(s, v) ==
    IF s = << >> THEN << v >>
    ELSE IF ge(Head(s), v) THEN << Head(s) >> \o InsertDesc(Tail(s), v)
    ELSE << v >> \o s

RECURSIVE SortedDesc(_)
SortedDesc(x) ==
    IF x = << >> THEN << >>
    ELSE InsertDesc(SortedDesc(SubSeq(x, 1, Len(x) - 1)), x[Len(x)])

\* sum(x)
RECURSIVE Sum(_)
Sum(x) == IF x = << >> THEN Zero ELSE add(Head(x), Sum(Tail(x)))

(***************************************************************************)
(* geometric_mean                                                          *)
(***************************************************************************)
\* for _x in x: tmp = tmp * _x // D
RECURSIVE gmTmp(_, _, _)
gmTmp(x, D, st) ==
    IF st.j > Len(x) THEN st.tmp
    ELSE gmTmp(x, D, [j |-> st.j + 1, tmp |-> fdiv(mul(st.tmp, x[st.j]), D)])

\* diff <= 1 or diff * 10**18 < D
gmDiffSmall(diff, D) == le(diff, One) \/ lt(mul(diff, E18), D)

gmConverged(D_prev, D) == gmDiffSmall(abs(sub(D_prev, D)), D)

\* the quotient rounded up
gmNextUp(x, D) ==
    add(fdiv(mul(D, add(mul(sub(PyInt(Len(x)), One), E18),
                        gmTmp(x, D, [j |-> 1, tmp |-> E18]))),
             mul(PyInt(Len(x)), E18)), One)

\* D = D * ((n_coins - 1) * 10**18 + tmp) // (n_coins * 10**18)
gmNext(x, D) ==
    fdiv(mul(D, add(mul(sub(PyInt(Len(x)), One), E18), gmTmp(x, D, [j |-> 1, tmp |-> E18]))),
         mul(PyInt(Len(x)), E18))

\* the end of a pass begun at st.value, D its iterate
gmTest(st, D) ==
    IF gmConverged(st.value, D) THEN Return(D, st.iters + 1)
    ELSE Continue(D, st.iters + 1)

\* one pass of the loop body from the iterate st.value: the return it
\* makes, or the next iterate
gmIter(x, st) ==
    IF IsZero(st.value) THEN Raise("ZeroDivisionError", "", st.value, st.iters + 1)
    ELSE gmTest(st, gmNext(x, st.value))

\* D = x[0]; for i in range(255): ...
gmLoop(x) == DidNotConverge(Range(gmIter, x, Continue(x[1], 0), MaxIter))

\* the sort left out
geometric_mean_AsGiven(unsorted_x, sort) == gmLoop(unsorted_x)

geometric_mean(unsorted_x, sort) ==
    gmLoop(IF sort THEN SortedDesc(unsorted_x) ELSE unsorted_x)

(***************************************************************************)
(* _snekmate_log_2 and _cbrt, for x >= 0                                   *)
(***************************************************************************)
Square(a) == mul(a, a)

\* b ** e by squaring: st.acc * st.base ** st.e is b ** e throughout
RECURSIVE PowLoop(_)
PowLoop(st) ==
    IF st.e = 0 THEN st.acc
    ELSE PowLoop([acc |-> IF st.e % 2 = 1 THEN mul(st.acc, st.base) ELSE st.acc,
                  base |-> IF st.e > 1 THEN Square(st.base) ELSE st.base,
                  e |-> st.e \div 2])

\* b ** e
Pow(b, e) == PowLoop([acc |-> One, base |-> b, e |-> e])

\* x >> k
ShiftRight(x, k) == fdiv(x, Pow(PyInt(2), k))

\* if value >> k != 0: value = value >> k; result = result + k
Log2Shifted(st, k, shifted) ==
    IF ~IsZero(shifted) THEN [value |-> shifted, result |-> st.result + k]
    ELSE st

Log2Step(st, k) == Log2Shifted(st, k, ShiftRight(st.value, k))

\* the steps by 128, 64, 32, 16, 8, 4 and 2 bits; none changes a value of 0
RECURSIVE Log2Steps(_, _)
Log2Steps(st, shifts) ==
    IF IsZero(st.value) \/ shifts = << >> THEN st
    ELSE Log2Steps(Log2Step(st, Head(shifts)), Tail(shifts))

\* if value >> 1 != 0: result = result + 1
Log2Last(st) ==
    IF ~IsZero(ShiftRight(st.value, 1)) THEN st.result + 1 ELSE st.result

\* the result rounded up whenever asked to
Log2RoundUpAlways(result, x, roundup) ==
    IF roundup THEN result + 1 ELSE result

\* if roundup and (1 << result) < x: result = result + 1
Log2RoundUp(result, x, roundup) ==
    IF roundup /\ lt(Pow(PyInt(2), result), x) THEN result + 1 ELSE result

_snekmate_log_2(x, roundup) ==
    Log2RoundUp(Log2Last(Log2Steps([value |-> x, result |-> 0],
                                   << 128, 64, 32, 16, 8, 4, 2 >>)),
                x, roundup)

CbrtThreshold ==
    Dec(<< 115, 792, 89, 237, 316, 195, 423, 570, 985, 8, 687, 907, 853, 269 >>)

\* xx, by the size of x
CbrtScaled(x) ==
    IF ge(x, mul(CbrtThreshold, E18)) THEN x
    ELSE IF ge(x, CbrtThreshold) THEN mul(x, E18)
    ELSE mul(mul(x, PyInt(10)), PyInt(36))

\* a = (2 ** (log2x // 3) * (1260**remainder)) // 1000**remainder
CbrtGuess(log2x) ==
    fdiv(mul(Pow(PyInt(2), log2x \div 3), Pow(PyInt(1260), log2x % 3)),
         Pow(PyInt(1000), log2x % 3))

\* a = (2 * a + xx // (a * a)) // 3
CbrtIter(xx, st) ==
    IF IsZero(st.value) THEN Raise("ZeroDivisionError", "", st.value, st.iters + 1)
    ELSE Continue(fdiv(add(mul(PyInt(2), st.value),
                           fdiv(xx, mul(st.value, st.value))),
                       PyInt(3)),
                  st.iters + 1)

\* the result scaled, by the size of x
CbrtRescaled(x, a) ==
    IF ge(x, mul(CbrtThreshold, E18)) THEN mul(a, TenPow(12))
    ELSE IF ge(x, CbrtThreshold) THEN mul(a, TenPow(6))
    ELSE a

CbrtEnd(x, st) ==
    IF Looping(st) THEN Return(CbrtRescaled(x, st.value), st.iters) ELSE st

\* the seven iterations from the guess
CbrtFrom(x, xx) ==
    CbrtEnd(x, Range(CbrtIter, xx,
                     Continue(CbrtGuess(_snekmate_log_2(xx, FALSE)), 0), 7))

_cbrt(x) == CbrtFrom(x, CbrtScaled(x))

(***************************************************************************)
(* newton_D, the definition in effect (the second of the module)           *)
(***************************************************************************)
\* (2**256 - 1) // 10**18
MaxUintOverE18 ==
    Dec(<< 115, 792, 89, 237, 316, 195, 423, 570, 985, 8, 687, 907, 853, 269,
           984, 665, 640, 564, 39, 457 >>)

\* the lower bound of the first definition's ratio check in place of 10**16
FracInRangeFrom11(frac) == le(TenPow(11), frac) /\ le(frac, TenPow(20))

\* assert 10**16 <= frac <= 10**20
FracInRange(frac) == le(TenPow(16), frac) /\ le(frac, TenPow(20))

\* for _x in x: frac = (_x * 10**18) // D; assert 10**16 <= frac <= 10**20
FracSafe(_x, D) == FracInRange(fdiv(mul(_x, E18), D))

\* the convergence test: diff * 10**14 < max(10**16, D)
Converged(D, D_prev) ==
    lt(mul(abs(sub(D, D_prev)), TenPow(14)), max(TenPow(16), D))

\* K0 = 10**18 * x[0] * N_COINS // D * x[1] * N_COINS // D * x[2] * N_COINS // D
\* st.K0 is the product up to the factor x[st.j - 1] * N_COINS // D
RECURSIVE NewtonK0(_, _, _, _)
NewtonK0(x, N_COINS, D, st) ==
    IF st.j > 3 THEN st.K0
    ELSE NewtonK0(x, N_COINS, D,
                  [j |-> st.j + 1,
                   K0 |-> fdiv(mul(mul(st.K0, x[st.j]), N_COINS), D)])

\* mul1 = 10**18 * D // gamma * _g1k0 // gamma * _g1k0 * A_MULTIPLIER // ANN
NewtonMul1(ANN, gamma, D, _g1k0) ==
    fdiv(mul(mul(fdiv(mul(fdiv(mul(E18, D), gamma), _g1k0), gamma), _g1k0),
             A_MULTIPLIER), ANN)

\* mul2 = 2 * 10**18 * N_COINS * K0 // _g1k0
NewtonMul2(N_COINS, K0, _g1k0) ==
    fdiv(mul(mul(mul(PyInt(2), E18), N_COINS), K0), _g1k0)

\* (S + S * mul2 // 10**18) + mul1 * N_COINS // K0 - mul2 * D // 10**18
NewtonNegFprime(S, N_COINS, D, K0, mul1, mul2) ==
    sub(add(add(S, fdiv(mul(S, mul2), E18)), fdiv(mul(mul1, N_COINS), K0)),
        fdiv(mul(mul2, D), E18))

\* D_plus = D * (neg_fprime + S) // neg_fprime
NewtonDPlus(D, S, neg_fprime) == fdiv(mul(D, add(neg_fprime, S)), neg_fprime)

\* D_minus = D * D // neg_fprime, and what the branch on 10**18 > K0 adds to
\* it or takes from it
NewtonDMinus(D, K0, mul1, neg_fprime) ==
    IF gt(E18, K0)
    THEN add(fdiv(mul(D, D), neg_fprime),
             fdiv(mul(fdiv(mul(D, fdiv(mul1, neg_fprime)), E18),
                      sub(E18, K0)), K0))
    ELSE sub(fdiv(mul(D, D), neg_fprime),
             fdiv(mul(fdiv(fdiv(mul(D, mul1), neg_fprime), E18),
                      sub(K0, E18)), K0))

\* if D_plus > D_minus: D = D_plus - D_minus
\* else: D = (D_minus - D_plus) // 2
NewtonStep(D_plus, D_minus) ==
    IF gt(D_plus, D_minus) THEN sub(D_plus, D_minus)
    ELSE fdiv(sub(D_minus, D_plus), PyInt(2))

\* the return of an iteration whose convergence test is met
NewtonReturn(x, D, i) ==
    IF IsZero(D) THEN Raise("ZeroDivisionError", "", D, i)
    ELSE IF \E j \in 1..Len(x) : ~FracSafe(x[j], D)
    THEN Raise("AssertionError", "Unsafe values x[i]", D, i)
    ELSE Return(D, i)

\* One pass of the loop body, in the steps the code makes, each handed the
\* locals the steps before it assigned (l) and beginning with the test the
\* code makes next.  c holds ANN, gamma, x and S; st the iterate and the
\* passes made.
NewtonTest(c, st, l) ==
    IF Converged(l.D, st.value) THEN NewtonReturn(c.x, l.D, st.iters + 1)
    ELSE Continue(l.D, st.iters + 1)

\* if D_plus > D_minus
NewtonFromPlus(c, st, l) ==
    NewtonTest(c, st, [D |-> NewtonStep(l.D_plus, l.D_minus)])

\* the divisions by neg_fprime
NewtonFromFprime(c, st, l) ==
    IF IsZero(l.neg_fprime)
    THEN Raise("ZeroDivisionError", "", st.value, st.iters + 1)
    ELSE NewtonFromPlus(c, st,
            [D_plus |-> NewtonDPlus(st.value, c.S, l.neg_fprime),
             D_minus |-> NewtonDMinus(st.value, l.K0, l.mul1, l.neg_fprime)])

\* the division by K0 in neg_fprime
NewtonFromMul(c, st, l) ==
    IF IsZero(l.K0)
    THEN Raise("ZeroDivisionError", "", st.value, st.iters + 1)
    ELSE NewtonFromFprime(c, st,
            [K0 |-> l.K0, mul1 |-> l.mul1,
             neg_fprime |-> NewtonNegFprime(c.S, PyInt(Len(c.x)), st.value,
                                            l.K0, l.mul1, l.mul2)])

\* the division by _g1k0 in mul2
NewtonFromG1k0(c, st, l) ==
    IF IsZero(l._g1k0)
    THEN Raise("ZeroDivisionError", "", st.value, st.iters + 1)
    ELSE NewtonFromMul(c, st,
            [K0 |-> l.K0,
             mul1 |-> NewtonMul1(c.ANN, c.gamma, st.value, l._g1k0),
             mul2 |-> NewtonMul2(PyInt(Len(c.x)), l.K0, l._g1k0)])

\* the divisions by gamma and ANN in mul1; _g1k0 = abs(gamma + 10**18 - K0) + 1
NewtonFromK0(c, st, l) ==
    IF IsZero(c.gamma) \/ IsZero(c.ANN)
    THEN Raise("ZeroDivisionError", "", st.value, st.iters + 1)
    ELSE NewtonFromG1k0(c, st,
            [K0 |-> l.K0,
             _g1k0 |-> add(abs(sub(add(c.gamma, E18), l.K0)), One)])

\* the exception the pass raises, the return it makes, or the next iterate
NewtonIter(c, st) ==
    IF IsZero(st.value)
    THEN Raise("ZeroDivisionError", "", st.value, st.iters + 1)
    ELSE IF Len(c.x) < 3
    THEN Raise("IndexError", "list index out of range", st.value, st.iters + 1)
    ELSE NewtonFromK0(c, st,
            [K0 |-> NewtonK0(c.x, PyInt(Len(c.x)), st.value, [j |-> 1, K0 |-> E18])])

\* for i in range(255): ... raise CalculationError("Did not converge")
NewtonLoop(ANN, gamma, x, S, D) ==
    DidNotConverge(Range(NewtonIter, [ANN |-> ANN, gamma |-> gamma, x |-> x, S |-> S],
                         Continue(D, 0), MaxIter))

\* D = N_COINS * geometric_mean(x, False)
NewtonFromMean(ANN, gamma, x, gm) ==
    IF ~Returned(gm) THEN Raise(gm.exc, gm.msg, Zero, 0)
    ELSE NewtonLoop(ANN, gamma, x, Sum(x), mul(PyInt(Len(x)), gm.value))

\* x[0] * x[1] // 10**k * x[2] // K0_prev * 27 * m
NewtonSeedArg(x, K0_prev, k, m) ==
    mul(mul(fdiv(mul(fdiv(mul(x[1], x[2]), TenPow(k)), x[3]), K0_prev),
            PyInt(27)), m)

\* D = _cbrt(...), by the size of S
NewtonSeed(x, S, K0_prev) ==
    IF Len(x) < 3 THEN Raise("IndexError", "list index out of range", Zero, 0)
    ELSE IF gt(S, TenPow(36)) THEN _cbrt(NewtonSeedArg(x, K0_prev, 36, TenPow(12)))
    ELSE IF gt(S, TenPow(24)) THEN _cbrt(NewtonSeedArg(x, K0_prev, 24, TenPow(6)))
    ELSE _cbrt(NewtonSeedArg(x, K0_prev, 18, One))

\* the loop from the seed, or the exception of _cbrt
NewtonFromSeed(ANN, gamma, x, seed) ==
    IF ~Returned(seed) THEN Raise(seed.exc, seed.msg, Zero, 0)
    ELSE NewtonLoop(ANN, gamma, x, Sum(x), seed.value)

NewtonSorted(ANN, gamma, x, K0_prev) ==
    IF x = << >> THEN Raise("IndexError", "list index out of range", Zero, 0)
    ELSE IF ~lt(x[1], mul(MaxUintOverE18, PyInt(Len(x) ^ Len(x))))
    THEN Raise("AssertionError", "", Zero, 0)
    ELSE IF ~gt(x[1], Zero)
    THEN Raise("AssertionError", "", Zero, 0)
    ELSE IF IsZero(K0_prev)
    THEN NewtonFromMean(ANN, gamma, x, geometric_mean(x, FALSE))
    ELSE NewtonFromSeed(ANN, gamma, x, NewtonSeed(x, Sum(x), K0_prev))

newton_D(ANN, gamma, x_unsorted, K0_prev) ==
    NewtonSorted(ANN, gamma, SortedDesc(x_unsorted), K0_prev)

(***************************************************************************)
(* get_p                                                                   *)
(***************************************************************************)
E36 == TenPow(36)

\* K0 = N**N * xp[0] * xp[1] // D * xp[2] // D * 10**36 // D
GetPK0(xp, D) ==
    fdiv(mul(fdiv(mul(fdiv(mul(mul(PyInt(Len(xp) ^ Len(xp)), xp[1]), xp[2]), D),
                      xp[3]), D),
             E36), D)

\* 2 * K0**2 // 10**36 * K0 // 10**36 + (gamma + 10**18) ** 2
\*     - (K0**2 // 10**36 * (2 * gamma + 3 * 10**18) // 10**18)
GetPGK0(K0, gamma) ==
    sub(add(fdiv(mul(fdiv(mul(PyInt(2), Square(K0)), E36), K0), E36),
            Square(add(gamma, E18))),
        fdiv(mul(fdiv(Square(K0), E36),
                 add(mul(PyInt(2), gamma), mul(PyInt(3), E18))),
             E18))

\* NNAG2 = A * gamma**2 // A_MULTIPLIER
GetPNNAG2(A, gamma) == fdiv(mul(A, Square(gamma)), A_MULTIPLIER)

\* GK0 + NNAG2 * x // D * K0 // 10**36
GetPTerm(c, x) == add(c.GK0, fdiv(mul(fdiv(mul(c.NNAG2, x), c.D), c.K0), E36))

\* xp[0] * (GK0 + NNAG2 * y // D * K0 // 10**36) // y * 10**18 // denominator
GetPRatio(c, y) ==
    fdiv(mul(fdiv(mul(c.xp[1], GetPTerm(c, y)), y), E18), c.denominator)

\* the list returned
GetPReturn(c) ==
    IF IsZero(c.xp[2]) \/ IsZero(c.denominator) \/ IsZero(c.xp[3])
    THEN Raise("ZeroDivisionError", "", Zero, 0)
    ELSE Return(<< GetPRatio(c, c.xp[2]), GetPRatio(c, c.xp[3]) >>, 0)

GetPFromTerms(c) == GetPReturn([c EXCEPT !.denominator = GetPTerm(c, c.xp[1])])

GetPFromK0(xp, D, A, gamma, K0) ==
    GetPFromTerms([xp |-> xp, D |-> D, K0 |-> K0, GK0 |-> GetPGK0(K0, gamma),
                   NNAG2 |-> GetPNNAG2(A, gamma), denominator |-> Zero])

\* the assertion on D left out
get_p_AnyD(xp, D, A, gamma) ==
    IF Len(xp) < 3 THEN Raise("IndexError", "list index out of range", Zero, 0)
    ELSE IF IsZero(D) THEN Raise("ZeroDivisionError", "", Zero, 0)
    ELSE GetPFromK0(xp, D, A, gamma, GetPK0(xp, D))

get_p(xp, D, A, gamma) ==
    IF ~(le(TenPow(17), D) /\ le(D, mul(TenPow(15), E18)))
    THEN Raise("AssertionError", "", Zero, 0)
    ELSE IF Len(xp) < 3 THEN Raise("IndexError", "list index out of range", Zero, 0)
    ELSE GetPFromK0(xp, D, A, gamma, GetPK0(xp, D))

(***************************************************************************)
(* pool_mixins.py: the special attribute setters                           *)
(***************************************************************************)
\* without the division of D by n
DistributeDWhole(D, n, rates) ==
    << >> \o [i \in 1..Len(rates) |-> fdiv(mul(D, E18), rates[i])]

\* [D // n * 10**18 // r for r in rates]
DistributeD(D, n, rates) ==
    << >> \o [i \in 1..Len(rates) |-> fdiv(mul(fdiv(D, PyInt(n)), E18), rates[i])]

\* pool._xp(): the balances in the common unit, via the rates
Xp(balances, rates) ==
    << >> \o [i \in 1..Len(balances) |-> fdiv(mul(balances[i], rates[i]), E18)]

\* pool._convert_D_to_balances(D): the invariant distributed over the tokens
\* via the pool's rates
_convert_D_to_balances(pool, D) == DistributeD(D, pool.n, pool.rates)

\* the names with a special setter, per pool family
setters(family) ==
    CASE family = "stableswap" -> {"D"}
      [] family = "metapool" -> {"D", "D_base"}
      [] family = "cryptoswap" -> {"D", "A"}

\* A setter leaves the pool it was given as `pool`, and `out` as the outcome
\* of the solve it made (a plain return where it makes none).
Done == Return(Zero, 0)

stableswap_D_to_balances(pool, D) ==
    [pool |-> [pool EXCEPT !.balances = DistributeD(D, pool.n, pool.rates)],
     out |-> Done]

\* the distribution made with the meta-pool's own n and rates
stableswap_D_base_to_balances_OwnN(pool, D_base) ==
    [pool |-> [pool EXCEPT !.basepool.balances =
                   DistributeD(D_base, pool.n, pool.rates)],
     out |-> Done]

stableswap_D_base_to_balances(pool, D_base) ==
    [pool |-> [pool EXCEPT !.basepool.balances =
                   DistributeD(D_base, pool.basepool.n, pool.basepool.rates)],
     out |-> Done]

cryptoswap_D_to_balances(pool, D) ==
    [pool |-> [pool EXCEPT !.D = D,
                           !.balances = _convert_D_to_balances(pool, D)],
     out |-> Done]

\* an exception of newton_D leaves the function before either assignment
\* pool.A assigned before the solve has returned
StoreAFirst(pool, A, D) ==
    IF Returned(D)
    THEN [pool |-> [pool EXCEPT !.D = D.value, !.A = A], out |-> D]
    ELSE [pool |-> [pool EXCEPT !.A = A], out |-> D]

StoreA(pool, A, D) ==
    IF Returned(D)
    THEN [pool |-> [pool EXCEPT !.D = D.value, !.A = A], out |-> D]
    ELSE [pool |-> pool, out |-> D]

\* the solve made at the pool's old A
set_cryptoswap_A_OldA(pool, A) ==
    StoreA(pool, A, newton_D(pool.A, pool.gamma, Xp(pool.balances, pool.rates), Zero))

set_cryptoswap_A(pool, A) ==
    StoreA(pool, A, newton_D(A, pool.gamma, Xp(pool.balances, pool.rates), Zero))

StoreGamma(pool, gamma, D) ==
    IF Returned(D)
    THEN [pool |-> [pool EXCEPT !.D = D.value, !.gamma = gamma], out |-> D]
    ELSE [pool |-> pool, out |-> D]

\* defined by the module, registered in no setters table
set_cryptoswap_gamma(pool, gamma) ==
    StoreGamma(pool, gamma,
               newton_D(pool.A, gamma, Xp(pool.balances, pool.rates), Zero))

(***************************************************************************)
(* State                                                                   *)
(*   pc       where a behaviour of pure calls stands                       *)
(*   call     the arguments of the pure call under way                     *)
(*   result   its outcome; result2 the outcome of the solve that follows   *)
(*            the redistribution redist of the invariant                   *)
(*   base     the base pool handed to the sampler                          *)
(*   sampler  the sampler: its status, its axes, the error that ended it   *)
(*   variant  the pool variant the setters act on, a clone of base         *)
(*   last     the last setter applied: its name, its value, the variant    *)
(*            before it                                                    *)
(***************************************************************************)
VARIABLES pc, call, result, redist, result2, base, sampler, variant, last

callVars == << pc, call, result, redist, result2 >>
poolVars == << base, sampler, variant, last >>
vars == << pc, call, result, redist, result2, base, sampler, variant, last >>

Pending == [exc |-> "pending", msg |-> "", value |-> Zero, iters |-> 0]
NoRedist == [rates |-> << >>, balances |-> << >>]
NoCall == [x |-> << >>]
NoPool == [family |-> "none"]
NoSampler == [status |-> "none", axes |-> {}, err |-> Pending]
NoSetter == [setter |-> "none", value |-> Zero, before |-> NoPool]

NoPools ==
    /\ base = NoPool
    /\ sampler = NoSampler
    /\ variant = NoPool
    /\ last = NoSetter

(***************************************************************************)
(* Inputs                                                                  *)
(***************************************************************************)
\* the pool sizes: 2-asset and 3-asset pools
CoinCounts == {2, 3}

\* geometric_mean: values 1..MaxGmVal, in units of 1 and of 10**18
MaxGmVal == 3

\* the lists of n values drawn from `values`, for n a pool size
Lists(values) == UNION { [1..n -> values] : n \in CoinCounts }

\* values far apart: 48 and 75 orders of magnitude
GmSpread ==
    { << One, TenPow(48) >>, << TenPow(75), One, One >> }

GmInputs ==
    { [x |-> << >> \o [i \in 1..Len(v) |-> mul(PyInt(v[i]), unit)], sort |-> b] :
        v \in Lists(1..MaxGmVal), unit \in {One, E18}, b \in BOOLEAN }
    \cup { [x |-> v, sort |-> b] : v \in GmSpread, b \in BOOLEAN }

\* newton_D: balances 1..MaxBal and one balance 1000 times the unit
MaxBal == 4

BalanceValues == { PyInt(v) : v \in 1..MaxBal } \cup { TenPow(3) }

\* the virtual balances of the Mainnet 3Pool snapshot (test/conftest.py)
Mainnet3Pool ==
    << Dec(<< 295, 949, 605, 740, 77, 243, 186, 725, 223 >>),
       Dec(<< 284, 320, 67, 518, 878, 0, 0, 0, 0 >>),
       Dec(<< 288, 200, 854, 907, 854, 0, 0, 0, 0 >>) >>

\* ANN below, at and above the bounds for 3 coins (27000 and 27 * 10**9)
ANNs ==
    { PyInt(26999), PyInt(27000), PyInt(270000000),
      mul(PyInt(27), TenPow(9)), add(mul(PyInt(27), TenPow(9)), One) }

Gammas ==
    { sub(MIN_GAMMA, One), MIN_GAMMA, TenPow(13), MAX_GAMMA,
      add(MAX_GAMMA, One) }

NewtonInputs ==
    \* every balance list, at one setting of the parameters
    { [ANN |-> PyInt(270000000), gamma |-> MAX_GAMMA, x |-> << >> \o x,
       K0_prev |-> Zero] :
        x \in Lists(BalanceValues) }
    \cup
    \* every setting of the parameters, at two balance lists
    { [ANN |-> a, gamma |-> g, x |-> x, K0_prev |-> Zero] :
        a \in ANNs \cup {Zero}, g \in Gammas \cup {Zero},
        x \in { << PyInt(4), PyInt(2), PyInt(3) >>,
                << TenPow(9), TenPow(9), One >> } }
    \cup
    { [ANN |-> PyInt(2700000), gamma |-> TenPow(13), x |-> x, K0_prev |-> Zero] :
        x \in { Mainnet3Pool,
                << TenPow(21), TenPow(21) >>,
                << PyInt(2), PyInt(2), PyInt(2), PyInt(2) >>,
                << Zero, Zero, Zero >> } }
    \cup
    \* an apriori K0_prev, at balance lists of each size of S
    { [ANN |-> PyInt(2700000), gamma |-> TenPow(13), x |-> x, K0_prev |-> k] :
        x \in { Mainnet3Pool,
                << PyInt(400000), PyInt(200000), PyInt(300000) >>,
                << mul(PyInt(3), E18), E18, mul(PyInt(2), E18) >>,
                << TenPow(30), TenPow(30), TenPow(30) >>,
                << TenPow(36), TenPow(36), TenPow(36) >>,
                << TenPow(21), TenPow(21) >> },
        k \in { One, E18, mul(PyInt(2), E18) } }

\* the rates of the tokens: 18 decimals throughout, or those of the 3Pool
\* (test/conftest.py: p = [10**18, 10**30, 10**30])
RateSets(n) ==
    { << >> \o [i \in 1..n |-> E18],
      << >> \o [i \in 1..n |-> IF i = 1 THEN E18 ELSE TenPow(30)] }

(***************************************************************************)
(* SpecGM: calls of geometric_mean                                         *)
(***************************************************************************)
InitGM ==
    /\ pc = "call"
    /\ call \in GmInputs
    /\ result = Pending
    /\ redist = NoRedist
    /\ result2 = Pending
    /\ NoPools

CallGeometricMean ==
    /\ pc = "call"
    /\ result' = geometric_mean(call.x, call.sort)
    /\ pc' = "done"
    /\ UNCHANGED << call, redist, result2, poolVars >>

NextGM == CallGeometricMean

SpecGM == InitGM /\ [][NextGM]_vars

(***************************************************************************)
(* SpecD: calls of newton_D, the redistribution of the invariant found     *)
(* over the balances, and the solve on the redistributed balances          *)
(***************************************************************************)
InitD ==
    /\ pc = "call"
    /\ call \in NewtonInputs
    /\ result = Pending
    /\ redist = NoRedist
    /\ result2 = Pending
    /\ NoPools

Solve ==
    /\ pc = "call"
    /\ result' = newton_D(call.ANN, call.gamma, call.x, call.K0_prev)
    /\ pc' = "solved"
    /\ UNCHANGED << call, redist, result2, poolVars >>

Redistribute ==
    /\ pc = "solved"
    /\ Returned(result)
    /\ \E rates \in RateSets(Len(call.x)) :
           redist' = [rates |-> rates,
                      balances |-> DistributeD(result.value, Len(call.x),
                                               rates)]
    /\ pc' = "redistributed"
    /\ UNCHANGED << call, result, result2, poolVars >>

SolveAgain ==
    /\ pc = "redistributed"
    /\ result2' = newton_D(call.ANN, call.gamma,
                           Xp(redist.balances, redist.rates), Zero)
    /\ pc' = "resolved"
    /\ UNCHANGED << call, result, redist, poolVars >>

NextD == Solve \/ Redistribute \/ SolveAgain

SpecD == InitD /\ [][NextD]_vars

(***************************************************************************)
(* Spec: a sampler over a base pool, and the setters applied to the pool   *)
(* variants it produces                                                    *)
(***************************************************************************)
\* the Mainnet 3Pool snapshot (test/conftest.py)
StableswapPool ==
    [family |-> "stableswap", A |-> PyInt(2000), n |-> 3,
     rates |-> << E18, TenPow(30), TenPow(30) >>,
     balances |-> << Dec(<< 295, 949, 605, 740, 77, 243, 186, 725, 223 >>),
                     Dec(<< 284, 320, 67, 518, 878 >>),
                     Dec(<< 288, 200, 854, 907, 854 >>) >>]

\* a 2-asset pool over the LP token of the 3Pool
MetaPool ==
    [family |-> "metapool", A |-> PyInt(1500), n |-> 2,
     rates |-> << E18, E18 >>,
     balances |-> << mul(PyInt(5), TenPow(24)), mul(PyInt(7), TenPow(24)) >>,
     basepool |-> StableswapPool]

\* a 3-asset cryptoswap pool at its invariant
CryptoswapPool ==
    [family |-> "cryptoswap", A |-> PyInt(2700000), gamma |-> MAX_GAMMA, n |-> 3,
     rates |-> << E18, E18, E18 >>,
     balances |-> << PyInt(400000), PyInt(200000), PyInt(300000) >>,
     D |-> PyInt(891460)]

BasePools == { StableswapPool, MetaPool, CryptoswapPool }

\* the invariants set: v * 10**21 + v, for v in 0..MaxD
MaxD == 2

DValues == { add(mul(PyInt(v), TenPow(21)), PyInt(v)) : v \in 0..MaxD }

\* the amplifications set; none solves at 0
AValues == { PyInt(27000), PyInt(270000000), Zero }

\* the gammas set
GammaValues == { TenPow(13) }

Init ==
    /\ pc = "idle"
    /\ call = NoCall
    /\ result = Pending
    /\ redist = NoRedist
    /\ result2 = Pending
    /\ base \in BasePools
    /\ sampler = NoSampler
    /\ variant = NoPool
    /\ last = NoSetter

\* The sampler is built over the base pool and the axes of the sweep.  The
\* sweeps modelled are those whose axes all have a special setter in the
\* table of the pool's family.  The sampler's own code is not in src/, and
\* what it does with any other axis (the scripts in src/ sweep mid_fee and
\* fee_gamma over a cryptoswap pool) is not modelled.
NewSampler ==
    /\ sampler.status = "none"
    /\ \E axes \in (SUBSET setters(base.family)) \ { {} } :
           sampler' = [status |-> "ready", axes |-> axes, err |-> Pending]
    /\ UNCHANGED << callVars, base, variant, last >>

\* the next variant: a clone of the base pool
NextVariant ==
    /\ sampler.status = "ready"
    /\ variant' = base
    /\ last' = NoSetter
    /\ UNCHANGED << callVars, base, sampler >>

\* the variant after a setter: as the setter left it, with the call noted;
\* an exception of the setter ends the sweep
Applied(name, value, r) ==
    /\ variant' = r.pool
    /\ last' = [setter |-> name, value |-> value, before |-> variant]
    /\ sampler' = IF Returned(r.out)
                  THEN sampler
                  ELSE [sampler EXCEPT !.status = "aborted", !.err = r.out]
    /\ UNCHANGED << callVars, base >>

CanSet(name) ==
    /\ sampler.status = "ready"
    /\ variant # NoPool
    /\ name \in sampler.axes

SetD ==
    /\ CanSet("D")
    /\ variant.family \in { "stableswap", "metapool" }
    /\ \E D \in DValues : Applied("D", D, stableswap_D_to_balances(variant, D))

SetDBase ==
    /\ CanSet("D_base")
    /\ \E D \in DValues :
           Applied("D_base", D, stableswap_D_base_to_balances(variant, D))

SetCryptoD ==
    /\ CanSet("D")
    /\ variant.family = "cryptoswap"
    /\ \E D \in DValues : Applied("D", D, cryptoswap_D_to_balances(variant, D))

SetA ==
    /\ CanSet("A")
    /\ \E A \in AValues : Applied("A", A, set_cryptoswap_A(variant, A))

\* set_cryptoswap_gamma is in no setters table: it is not reached through an
\* axis of the sweep, but called on the variant directly
SetGamma ==
    /\ sampler.status = "ready"
    /\ variant # NoPool
    /\ variant.family = "cryptoswap"
    /\ \E gamma \in GammaValues :
           Applied("gamma", gamma, set_cryptoswap_gamma(variant, gamma))

Next ==
    NewSampler \/ NextVariant \/ SetD \/ SetDBase \/ SetCryptoD \/ SetA \/ SetGamma

Spec == Init /\ [][Next]_vars

(***************************************************************************)
(* SpecLog: calls of _snekmate_log_2                                       *)
(***************************************************************************)
\* x = 2**k - 1, 2**k and 2**k + 1 for k in 0..MaxBit
MaxBit == 255

LogInputs ==
    { [x |-> add(Pow(PyInt(2), k), PyInt(d)), k |-> k, roundup |-> b] :
        k \in 0..MaxBit, d \in {-1, 0, 1}, b \in BOOLEAN }

InitLog ==
    /\ pc = "call"
    /\ call \in LogInputs
    /\ result = Pending
    /\ redist = NoRedist
    /\ result2 = Pending
    /\ NoPools

CallLog2 ==
    /\ pc = "call"
    /\ result' = Return(PyInt(_snekmate_log_2(call.x, call.roundup)), 0)
    /\ pc' = "done"
    /\ UNCHANGED << call, redist, result2, poolVars >>

NextLog == CallLog2

SpecLog == InitLog /\ [][NextLog]_vars

(***************************************************************************)
(* SpecCbrt: calls of _cbrt on cubes                                       *)
(***************************************************************************)
\* a = b + d for d in 0..MaxOffset, b from 1 up to beyond the two sizes of
\* a**3 at which _cbrt changes its scaling
MaxOffset == 12

CbrtBases ==
    { One, PyInt(100), TenPow(9),
      Dec(<< 48, 740, 834, 812, 600 >>), TenPow(16),
      Dec(<< 48, 740, 834, 812, 604, 276, 465 >>), TenPow(22) }

CbrtInputs ==
    { [a |-> add(b, PyInt(d))] : b \in CbrtBases, d \in 0..MaxOffset }

InitCbrt ==
    /\ pc = "call"
    /\ call \in CbrtInputs
    /\ result = Pending
    /\ redist = NoRedist
    /\ result2 = Pending
    /\ NoPools

CallCbrt ==
    /\ pc = "call"
    /\ result' = _cbrt(Pow(call.a, 3))
    /\ pc' = "done"
    /\ UNCHANGED << call, redist, result2, poolVars >>

NextCbrt == CallCbrt

SpecCbrt == InitCbrt /\ [][NextCbrt]_vars

(***************************************************************************)
(* SpecP: calls of get_p                                                   *)
(***************************************************************************)
\* lists of 0..MaxLen balances, each v * 10**18 for v in 0..MaxP
MaxLen == 4
MaxP == 1

GetPLists ==
    UNION { [1..n -> { mul(PyInt(v), E18) : v \in 0..MaxP }] : n \in 0..MaxLen }

\* D below, at, within, at and above the bounds asserted
GetPDs ==
    { sub(TenPow(17), One), TenPow(17), mul(PyInt(3), E18),
      TenPow(33), add(TenPow(33), One) }

GetPInputs ==
    { [xp |-> << >> \o xp, D |-> D, A |-> PyInt(1707629), gamma |-> g] :
        xp \in GetPLists, D \in GetPDs,
        g \in { Dec(<< 11, 809, 167, 828, 997 >>), MAX_GAMMA } }

InitP ==
    /\ pc = "call"
    /\ call \in GetPInputs
    /\ result = Pending
    /\ redist = NoRedist
    /\ result2 = Pending
    /\ NoPools

CallGetP ==
    /\ pc = "call"
    /\ result' = get_p(call.xp, call.D, call.A, call.gamma)
    /\ pc' = "done"
    /\ UNCHANGED << call, redist, result2, poolVars >>

NextP == CallGetP

SpecP == InitP /\ [][NextP]_vars

(***************************************************************************)
(* The claims                                                              *)
(***************************************************************************)
\* min_A = n_coins**n_coins * A_MULTIPLIER // 10
min_A(n_coins) == fdiv(mul(PyInt(n_coins ^ n_coins), A_MULTIPLIER), PyInt(10))

\* max_A = n_coins**n_coins * A_MULTIPLIER * 100000
max_A(n_coins) == mul(mul(PyInt(n_coins ^ n_coins), A_MULTIPLIER), PyInt(100000))

SafeA(ANN, n_coins) == le(min_A(n_coins), ANN) /\ le(ANN, max_A(n_coins))

SafeGamma(gamma) == le(MIN_GAMMA, gamma) /\ le(gamma, MAX_GAMMA)

\* every balance is at least 10**11 / 10**18 of the largest
SafeRatios(x) ==
    \A i \in 1..Len(x) :
        ge(fdiv(mul(x[i], E18), SortedDesc(x)[1]), TenPow(11))

Positive(x) == \A i \in 1..Len(x) : gt(x[i], Zero)

\* x * 10**18 // D
Frac(_x, D) == fdiv(mul(_x, E18), D)

\* |D2 - D| * 10**14 < max(10**16, D)
WithinTolerance(D2, D) ==
    lt(mul(abs(sub(D2, D)), TenPow(14)), max(TenPow(16), D))

\* C1: a call of newton_D whose ANN or gamma is out of bounds, or with a
\* balance below 10**11 / 10**18 of the largest, fails with the
\* unsafe-parameter error (CurvesimValueError).
C1_RejectsUnsafeParameters ==
    (/\ pc = "solved"
     /\ Len(call.x) = 3
     /\ Positive(call.x)
     /\ \/ ~SafeA(call.ANN, Len(call.x))
        \/ ~SafeGamma(call.gamma)
        \/ ~SafeRatios(call.x))
    => result.exc = "CurvesimValueError"

\* C2: when newton_D returns D, every balance x has
\* 10**16 <= x * 10**18 // D <= 10**20; when it fails with the unsafe-state
\* error, its converged iterate has a balance out of that range.
C2_ReturnedDIsSafe ==
    /\ (pc = "solved" /\ Returned(result)) =>
           \A j \in 1..Len(call.x) :
               /\ le(TenPow(16), Frac(call.x[j], result.value))
               /\ le(Frac(call.x[j], result.value), TenPow(20))
    /\ (pc = "solved" /\ result.msg = "Unsafe values x[i]") =>
           /\ result.exc = "AssertionError"
           /\ \E j \in 1..Len(call.x) :
                  \/ lt(Frac(call.x[j], result.value), TenPow(16))
                  \/ gt(Frac(call.x[j], result.value), TenPow(20))

C2_Witness ==
    /\ pc = "solved"
    /\ Returned(result)
    /\ Len(call.x) = 3
    /\ call.x[1] # call.x[2]
    /\ result.iters >= 1

\* C3: for 2 balances with ANN, gamma and the balances in bounds newton_D
\* returns an invariant.
C3_SolvesTwoAssetPools ==
    (/\ pc = "solved"
     /\ Len(call.x) = 2
     /\ Positive(call.x)
     /\ SafeA(call.ANN, 2)
     /\ SafeGamma(call.gamma)
     /\ SafeRatios(call.x)
     /\ ge(SortedDesc(call.x)[1], TenPow(9)))
    => Returned(result)

\* C4: a call of newton_D with positive balances ends within 255 iterations,
\* with a return or with the unsafe-parameter, unsafe-state or convergence
\* error, the convergence error only after 255 iterations.
C4_OnlyDocumentedOutcomes ==
    (pc = "solved" /\ Len(call.x) = 3 /\ Positive(call.x)) =>
        /\ result.iters <= MaxIter
        /\ \/ Returned(result)
           \/ result.exc = "CurvesimValueError"
           \/ result.exc = "AssertionError" /\ result.msg = "Unsafe values x[i]"
           \/ result.exc = "CalculationError" /\ result.iters = MaxIter

\* C5 as stated: the invariant of the balances redistributed from D via the
\* rates is within the convergence tolerance of D.
C5_RoundTrip ==
    pc = "resolved" =>
        /\ Returned(result2)
        /\ WithinTolerance(result2.value, result.value)

\* C5, amended: so it is when every rate is 10**18.
C5_RoundTripUnitRates ==
    (pc = "resolved" /\ \A i \in 1..Len(redist.rates) : redist.rates[i] = E18) =>
        /\ Returned(result2)
        /\ WithinTolerance(result2.value, result.value)

C5_Witness ==
    /\ pc = "resolved"
    /\ \A i \in 1..Len(redist.rates) : redist.rates[i] = E18
    /\ Returned(result2)
    /\ result2.value # result.value

\* C6: after set_cryptoswap_A the pool's A is the new A, its D what newton_D
\* gives for the new A, the pool's gamma and its normalized balances before
\* the call; gamma and the balances are as before.
C6_SetAStoresSolvedD ==
    (last.setter = "A" /\ sampler.status = "ready") =>
        /\ variant.A = last.value
        /\ variant.D = newton_D(last.value, last.before.gamma,
                                Xp(last.before.balances, last.before.rates),
                                Zero).value
        /\ variant.balances = last.before.balances
        /\ variant.gamma = last.before.gamma

\* a second setting of A, to another A and another D
C6_Witness ==
    /\ last.setter = "A"
    /\ sampler.status = "ready"
    /\ last.before.A # base.A
    /\ variant.A # last.before.A
    /\ variant.D # last.before.D

\* the balances D // n * 10**18 // rates[i], written out
Distributed(balances, D, n, rates) ==
    /\ Len(balances) = n
    /\ \A i \in 1..n :
           balances[i] = fdiv(mul(fdiv(D, PyInt(n)), E18), rates[i])

\* C7: after the D setter the pool's balances are D // n * 10**18 // rates[i],
\* each normalized balance at most D // n and their sum at most D; after the
\* D_base setter the base pool's balances are so distributed from D_base,
\* the meta-pool's own balances, rates and n as before.
C7_DistributionRule ==
    /\ (last.setter = "D" /\ variant.family \in {"stableswap", "metapool"}) =>
           /\ Distributed(variant.balances, last.value, variant.n, variant.rates)
           /\ \A i \in 1..variant.n :
                  le(Xp(variant.balances, variant.rates)[i],
                     fdiv(last.value, PyInt(variant.n)))
           /\ le(Sum(Xp(variant.balances, variant.rates)), last.value)
    /\ last.setter = "D_base" =>
           /\ Distributed(variant.basepool.balances, last.value,
                          variant.basepool.n, variant.basepool.rates)
           /\ variant.balances = last.before.balances
           /\ variant.rates = last.before.rates
           /\ variant.n = last.before.n

\* D_base set on a meta-pool, to an invariant the rates do not divide
C7_Witness ==
    /\ last.setter = "D_base"
    /\ variant.family = "metapool"
    /\ ~IsZero(variant.basepool.balances[2])
    /\ variant.basepool.balances # last.before.basepool.balances
    /\ Sum(Xp(variant.basepool.balances, variant.basepool.rates)) # last.value

\* the lists with the values of x in another order
Orderings(x) ==
    { << >> \o [i \in 1..Len(x) |-> x[f[i]]] :
        f \in { g \in [1..Len(x) -> 1..Len(x)] :
                  \A i, j \in 1..Len(x) : i # j => g[i] # g[j] } }

\* C9 as stated: geometric_mean gives one result for every order of the
\* values, under either sort flag.
C9_OrderInvariant ==
    pc = "done" =>
        \A y \in Orderings(call.x) : geometric_mean(y, call.sort) = result

\* C9, amended: so it does with sort = true.
C9_OrderInvariantSorted ==
    (pc = "done" /\ call.sort) =>
        \A y \in Orderings(call.x) : geometric_mean(y, call.sort) = result

\* values given in ascending order, of several units
C9_Witness ==
    /\ pc = "done"
    /\ call.sort
    /\ Len(call.x) = 3
    /\ lt(call.x[1], call.x[2])
    /\ lt(call.x[2], call.x[3])
    /\ Returned(result)

RECURSIVE Product(_)
Product(x) == IF x = << >> THEN One ELSE mul(Head(x), Product(Tail(x)))

RECURSIVE Power(_, _)
Power(r, n) == IF n = 0 THEN One ELSE mul(r, Power(r, n - 1))

RECURSIVE Largest(_)
Largest(x) == IF Len(x) = 1 THEN x[1] ELSE max(Head(x), Largest(Tail(x)))

C14_SetAAllOrNothing ==
    (last.setter = "A" /\ sampler.status = "aborted") =>
        /\ ~Returned(sampler.err)
        /\ sampler.err = newton_D(last.value, last.before.gamma,
                                  Xp(last.before.balances, last.before.rates),
                                  Zero)
        /\ variant.A = last.before.A
        /\ variant.D = last.before.D
        /\ variant.gamma = last.before.gamma
        /\ variant.balances = last.before.balances

\* a failed setting of A after a successful one
C14_Witness ==
    /\ last.setter = "A"
    /\ sampler.status = "aborted"
    /\ sampler.err.exc # "pending"
    /\ variant.A = last.before.A
    /\ variant.A # base.A
    /\ variant.A # last.value

\* a Python int below 1000 as a TLA+ integer
Small(z) == IF IsZero(z) THEN 0 ELSE z.mag[1]

\* C11: _snekmate_log_2 returns 0 for x = 0; for 1 <= x < 2**256 it returns
\* the r with 2**r <= x < 2**(r + 1) when rounding down and the r with
\* x <= 2**r and (r = 0 or 2**(r - 1) < x) when rounding up; it returns k
\* for 2**k rounded down.
C11_Log2Exact ==
    (pc = "done" /\ lt(call.x, Pow(PyInt(2), 256))) =>
        /\ Returned(result)
        /\ IsZero(call.x) => result.value = Zero
        /\ (~IsZero(call.x) /\ ~call.roundup) =>
               /\ le(Pow(PyInt(2), Small(result.value)), call.x)
               /\ lt(call.x, Pow(PyInt(2), Small(result.value) + 1))
        /\ (~IsZero(call.x) /\ call.roundup) =>
               /\ le(call.x, Pow(PyInt(2), Small(result.value)))
               /\ \/ result.value = Zero
                  \/ lt(Pow(PyInt(2), Small(result.value) - 1), call.x)
        /\ (call.x = Pow(PyInt(2), call.k) /\ ~call.roundup) =>
               result.value = PyInt(call.k)

\* 2**255 + 1 rounded up: 256
C11_Witness ==
    /\ pc = "done"
    /\ call.roundup
    /\ call.x = add(Pow(PyInt(2), 255), One)
    /\ result.value = PyInt(256)

\* C12: for a >= 1, _cbrt(a**3) returns an r with |r - a| <= 1.
C12_CubeRootRecovered ==
    pc = "done" =>
        /\ Returned(result)
        /\ le(abs(sub(result.value, call.a)), One)

\* assert 10**17 <= D <= 10**15 * 10**18
GetPDInRange(D) == le(TenPow(17), D) /\ le(D, TenPow(33))

\* C13 as stated: get_p fails on a list of balances whose length is not 3;
\* on 3 balances and 10**17 <= D <= 10**33 it returns two ratios; for D
\* outside that range it fails.
C13_ThreeAssetsOnly ==
    pc = "done" =>
        /\ Len(call.xp) # 3 => ~Returned(result)
        /\ (Len(call.xp) = 3 /\ GetPDInRange(call.D)) =>
               /\ Returned(result)
               /\ Len(result.value) = 2
        /\ ~GetPDInRange(call.D) => ~Returned(result)

\* C13, amended: get_p fails on fewer than 3 balances; on 3 balances or more
\* and 10**17 <= D <= 10**33 it returns two ratios, unless a division by
\* zero (so on a second or third balance of 0) fails it; for D outside that
\* range it fails on the assertion.
C13_AtLeastThreeAssets ==
    pc = "done" =>
        /\ Len(call.xp) < 3 => ~Returned(result)
        /\ (Len(call.xp) >= 3 /\ GetPDInRange(call.D)) =>
               IF Returned(result)
               THEN /\ Len(result.value) = 2
                    /\ ~IsZero(call.xp[2])
                    /\ ~IsZero(call.xp[3])
               ELSE result.exc = "ZeroDivisionError"
        /\ ~GetPDInRange(call.D) => result.exc = "AssertionError"

\* two ratios returned for four balances
C13_Witness ==
    /\ pc = "done"
    /\ Len(call.xp) = 4
    /\ GetPDInRange(call.D)
    /\ Returned(result)
    /\ Len(result.value) = 2

=============================================================================
